---- MODULE Spec2Model ----
(***************************************************************************)
(* A model of apogee/modelspec/ferre.py: the scalar/array input decorator, *)
(* the two control-file writers and the FERRE process runner.              *)
(*                                                                         *)
(* Text is a sequence of one-character strings, a file is a record holding *)
(* whether it exists and its text, and the file system maps a path to a    *)
(* file.  Floating-point parameters are integers counting 1/10000.         *)
(***************************************************************************)
EXTENDS Integers, Sequences, FiniteSets, TLC

VARIABLES fs, last

vars == <<fs, last>>

(***************************************************************************)
(* Bounds of the model.                                                    *)
(***************************************************************************)
MaxNdim == 3

MaxLen == 2

(***************************************************************************)
(* Defaults of write_input_nml's keyword parameters.                       *)
(***************************************************************************)
DefaultNdim == 6

DefaultNov == 0

DefaultInter == 3

DefaultFFormat == 1

DefaultFAccess == 1

(***************************************************************************)
(* Text helpers.                                                           *)
(***************************************************************************)
DigitChars == <<"0","1","2","3","4","5","6","7","8","9">>

RECURSIVE Digits(_)
Digits(n) ==
    IF n < 10 THEN <<DigitChars[n + 1]>>
    ELSE Digits(n \div 10) \o <<DigitChars[(n % 10) + 1]>>

\* '%i' % n
FmtInt(n) == IF n < 0 THEN <<"-">> \o Digits(-n) ELSE Digits(n)

RECURSIVE Pow10(_)
Pow10(k) == IF k = 0 THEN 1 ELSE 10 * Pow10(k - 1)

RECURSIVE PadDigits(_, _)
PadDigits(n, width) ==
    IF width = 0 THEN <<>>
    ELSE PadDigits(n \div 10, width - 1) \o <<DigitChars[(n % 10) + 1]>>

\* a / q rounded to the nearest integer, ties to even (a >= 0, q > 0)
RoundDiv(a, q) ==
    LET lo == a \div q
        r2 == 2 * (a % q)
    IN  IF r2 < q THEN lo
        ELSE IF r2 > q THEN lo + 1
        ELSE IF lo % 2 = 0 THEN lo ELSE lo + 1

\* '%.<d>f' % (x / 10000): sign, integer part, point, d decimals
FmtFixed(x, d) ==
    LET a      == IF x < 0 THEN -x ELSE x
        scaled == RoundDiv(a, Pow10(4 - d))
    IN  (IF x < 0 THEN <<"-">> ELSE <<>>)
        \o Digits(scaled \div Pow10(d)) \o <<".">> \o PadDigits(scaled % Pow10(d), d)

(***************************************************************************)
(* Reading text back: used to state what a written file holds.             *)
(***************************************************************************)
RECURSIVE Str(_)
Str(cs) == IF cs = <<>> THEN "" ELSE Head(cs) \o Str(Tail(cs))

\* the pieces of text between occurrences of sep (sep itself dropped)
Split(text, sep) ==
    LET P      == {i \in 1 .. Len(text) : text[i] = sep}
        n      == Cardinality(P)
        Nth(k) == CHOOSE i \in P : Cardinality({j \in P : j < i}) = k - 1
    IN  [k \in 1 .. n + 1 |->
            SubSeq(text,
                   IF k = 1 THEN 1 ELSE Nth(k - 1) + 1,
                   IF k = n + 1 THEN Len(text) ELSE Nth(k) - 1)]

\* the lines of a text file: each ends with a newline, a trailing piece
\* without one counts as a line too
SplitLines(text) ==
    LET pieces == Split(text, "\n")
    IN  IF pieces[Len(pieces)] = <<>> THEN SubSeq(pieces, 1, Len(pieces) - 1)
        ELSE pieces

IsDigit(c) == \E d \in 1 .. 10 : DigitChars[d] = c

DigitValue(c) == (CHOOSE d \in 1 .. 10 : DigitChars[d] = c) - 1

IsNat(cs) == cs # <<>> /\ \A i \in 1 .. Len(cs) : IsDigit(cs[i])

RECURSIVE ParseNat(_)
ParseNat(cs) ==
    IF cs = <<>> THEN 0
    ELSE 10 * ParseNat(SubSeq(cs, 1, Len(cs) - 1)) + DigitValue(cs[Len(cs)])

\* the first space-separated word of a line
Key(line) == Split(line, " ")[1]

StartsWith(text, prefix) ==
    Len(text) >= Len(prefix) /\ SubSeq(text, 1, Len(prefix)) = prefix

(***************************************************************************)
(* The file system: open(path, 'w'), write, and os.path.join.              *)
(***************************************************************************)
NmlName == <<"i","n","p","u","t",".","n","m","l">>

IpfName == <<"i","n","p","u","t",".","i","p","f">>

Dirs == {<<"w","1">>, <<"r","u","n","2">>}

PathJoin(dir, name) == dir \o <<"/">> \o name

Paths == {PathJoin(d, n) : d \in Dirs, n \in {NmlName, IpfName}}

NoFile == [exists |-> FALSE, data |-> <<>>]

EmptyFS == [p \in Paths |-> NoFile]

\* open(path, 'a') keeps what the file held
OpenAppend(fsv, path) ==
    [fsv EXCEPT ![path] = [exists |-> TRUE, data |-> fsv[path].data]]

\* open(path, 'w') creates the file or truncates it
OpenW(fsv, path) ==
    [fsv EXCEPT ![path] = [exists |-> TRUE, data |-> <<>>]]

\* outfile.write(text)
Write(fsv, path, text) ==
    [fsv EXCEPT ![path] = [exists |-> TRUE, data |-> fsv[path].data \o text]]

RECURSIVE WriteAll(_, _, _)
WriteAll(fsv, path, texts) ==
    IF texts = <<>> THEN fsv
    ELSE WriteAll(Write(fsv, path, Head(texts)), path, Tail(texts))

(***************************************************************************)
(* write_input_nml                                                         *)
(***************************************************************************)
\* synthfile=None
NoneText == <<"None">>

\* apogee.tools.path.ferreModelLibraryPath(header=True): an opaque path
ferreModelLibraryPath == <<"l","i","b","/","f","_","a","p","o","g","e","e",".","h","d","r">>

\* the loop of lines 94-96 forgetting the last index
IndvStrShort(ndim) ==
    LET RECURSIVE Loop(_, _)
        Loop(ii, acc) == IF ii > ndim - 1 THEN acc
                         ELSE Loop(ii + 1, acc \o <<" ">> \o FmtInt(ii))
    IN  Loop(1, <<"I","N","D","V"," ","=">>)

\* indvstr after the loop of lines 94-96
IndvStr(ndim) ==
    LET RECURSIVE Loop(_, _)
        Loop(ii, acc) == IF ii > ndim THEN acc
                         ELSE Loop(ii + 1, acc \o <<" ">> \o FmtInt(ii))
    IN  Loop(1, <<"I","N","D","V"," ","=">>)

\* the texts of the write calls of lines 91-104, PFILE and OFFILE swapped
NmlWritesSwapped(a, synthfile) ==
    << <<"&","L","I","S","T","A","\n">>,
       <<"N","D","I","M"," ","="," ">> \o FmtInt(a.ndim) \o <<"\n">>,
       <<"N","O","V"," ","="," ">> \o FmtInt(a.nov) \o <<"\n">>,
       IndvStr(a.ndim) \o <<"\n">>,
       <<"S","Y","N","T","H","F","I","L","E","(","1",")"," ","="," ","'">>
           \o synthfile \o <<"'","\n">>,
       <<"O","F","F","I","L","E"," ","="," ","'">> \o a.offile \o <<"'","\n">>,
       <<"P","F","I","L","E"," ","="," ","'">> \o a.pfile \o <<"'","\n">>,
       <<"I","N","T","E","R"," ","="," ">> \o FmtInt(a.inter) \o <<"\n">>,
       <<"F","_","F","O","R","M","A","T"," ","="," ">> \o FmtInt(a.f_format) \o <<"\n">>,
       <<"F","_","A","C","C","E","S","S"," ","="," ">> \o FmtInt(a.f_access) \o <<"\n">>,
       <<"/","\n">> >>

\* the texts of the write calls of lines 91-103
NmlDirectives(a, synthfile) ==
    << <<"&","L","I","S","T","A","\n">>,
       <<"N","D","I","M"," ","="," ">> \o FmtInt(a.ndim) \o <<"\n">>,
       <<"N","O","V"," ","="," ">> \o FmtInt(a.nov) \o <<"\n">>,
       IndvStr(a.ndim) \o <<"\n">>,
       <<"S","Y","N","T","H","F","I","L","E","(","1",")"," ","="," ","'">>
           \o synthfile \o <<"'","\n">>,
       <<"P","F","I","L","E"," ","="," ","'">> \o a.pfile \o <<"'","\n">>,
       <<"O","F","F","I","L","E"," ","="," ","'">> \o a.offile \o <<"'","\n">>,
       <<"I","N","T","E","R"," ","="," ">> \o FmtInt(a.inter) \o <<"\n">>,
       <<"F","_","F","O","R","M","A","T"," ","="," ">> \o FmtInt(a.f_format) \o <<"\n">>,
       <<"F","_","A","C","C","E","S","S"," ","="," ">> \o FmtInt(a.f_access) \o <<"\n">> >>

\* the write calls without that of line 104: the close marker forgotten
NmlWritesNoClose(a, synthfile) == NmlDirectives(a, synthfile)

\* the texts of the write calls of lines 91-104, in order
NmlWrites(a, synthfile) == Append(NmlDirectives(a, synthfile), <<"/","\n">>)

\* write_input_nml(dir, pfile, offile, ndim=, nov=, synthfile=, inter=,
\* f_format=, f_access=): the file system afterwards and the value returned
write_input_nml(fsv, a) ==
    LET synthfile == IF a.synthfile = NoneText THEN ferreModelLibraryPath
                     ELSE a.synthfile
        path      == PathJoin(a.dir, NmlName)
    IN  [fs  |-> WriteAll(OpenW(fsv, path), path, NmlWrites(a, synthfile)),
         exc |-> "none",
         ret |-> "None"]

(***************************************************************************)
(* Python values: None, a scalar, a one-dimensional array (or list), a     *)
(* two-dimensional array.  A call ends with a value or with an exception.  *)
(***************************************************************************)
PyNone == [k |-> "none", v |-> <<>>, rows |-> <<>>]

Num(n) == [k |-> "num", v |-> <<n>>, rows |-> <<>>]

Arr(s) == [k |-> "arr", v |-> s, rows |-> <<>>]

Mat(r) == [k |-> "mat", v |-> <<>>, rows |-> r]

\* an array nested deeper than the model follows
Nested == [k |-> "nested", v |-> <<>>, rows |-> <<>>]

Returns(fsv, value) == [fs |-> fsv, exc |-> "none", ret |-> value]

Raises(fsv, exc) == [fs |-> fsv, exc |-> exc, ret |-> PyNone]

NoKwargs == [given |-> FALSE, vm |-> PyNone]

VmKwarg(x) == [given |-> TRUE, vm |-> x]

(***************************************************************************)
(* write_interpolate_ipf, the function under the decorator                 *)
(***************************************************************************)
\* numpy.log10 of the microturbulence values the model uses
Log10(v) ==
    CASE v = 10000  -> 0
      [] v = 20000  -> 3010
      [] v = 5000   -> -3010
      [] v = 14000  -> 1461
      [] v = 100000 -> 10000

\* x[ii] is in range (ii counts from 0)
InRange(x, ii) == x.k = "arr" /\ ii < Len(x.v)

\* x[ii]
Item(x, ii) == x.v[ii + 1]

\* lines 132-137 with the columns in the order of the parameters
IpfLineArgOrder(p, vm, ii) ==
    <<"d","u","m","m","y"," ">>
    \o (IF vm # PyNone THEN FmtFixed(Log10(Item(vm, ii)), 3) \o <<" ">> ELSE <<>>)
    \o FmtFixed(Item(p.teff, ii), 1) \o <<" ">>
    \o FmtFixed(Item(p.logg, ii), 3) \o <<" ">>
    \o FmtFixed(Item(p.metals, ii), 3) \o <<" ">>
    \o FmtFixed(Item(p.am, ii), 3) \o <<" ">>
    \o FmtFixed(Item(p.nm, ii), 3) \o <<" ">>
    \o FmtFixed(Item(p.cm, ii), 3) \o <<"\n">>

\* outStr of lines 132-137 for record ii
IpfLine(p, vm, ii) ==
    <<"d","u","m","m","y"," ">>
    \o (IF vm # PyNone THEN FmtFixed(Log10(Item(vm, ii)), 3) \o <<" ">> ELSE <<>>)
    \o FmtFixed(Item(p.cm, ii), 3) \o <<" ">>
    \o FmtFixed(Item(p.nm, ii), 3) \o <<" ">>
    \o FmtFixed(Item(p.am, ii), 3) \o <<" ">>
    \o FmtFixed(Item(p.metals, ii), 3) \o <<" ">>
    \o FmtFixed(Item(p.logg, ii), 3) \o <<" ">>
    \o FmtFixed(Item(p.teff, ii), 1) \o <<"\n">>

\* every index of lines 134-137 is in range for record ii
RecordInRange(p, vm, ii) ==
    /\ vm # PyNone => InRange(vm, ii)
    /\ \A x \in {p.cm, p.nm, p.am, p.metals, p.logg, p.teff} : InRange(x, ii)

\* the loop of lines 131-138 were the lines written so far lost on an error
RECURSIVE IpfLoopUnflushed(_, _, _, _, _)
IpfLoopUnflushed(fsv, path, p, vm, ii) ==
    IF ii >= Len(p.teff.v) THEN Returns(fsv, PyNone)
    ELSE IF ~RecordInRange(p, vm, ii) THEN Raises(OpenW(fsv, path), "IndexError")
    ELSE IpfLoopUnflushed(Write(fsv, path, IpfLine(p, vm, ii)), path, p, vm, ii + 1)

\* the loop of lines 131-138: an index out of range ends the with block,
\* which closes the file holding the lines written so far
RECURSIVE IpfLoop(_, _, _, _, _)
IpfLoop(fsv, path, p, vm, ii) ==
    IF ii >= Len(p.teff.v) THEN Returns(fsv, PyNone)
    ELSE IF ~RecordInRange(p, vm, ii) THEN Raises(fsv, "IndexError")
    ELSE IpfLoop(Write(fsv, path, IpfLine(p, vm, ii)), path, p, vm, ii + 1)

\* the undecorated write_interpolate_ipf(dir, teff, logg, metals, am, nm, cm,
\* vm=None); args holds the positional arguments
write_interpolate_ipf(fsv, args, kw) ==
    LET p    == [teff |-> args[2], logg |-> args[3], metals |-> args[4],
                 am |-> args[5], nm |-> args[6], cm |-> args[7]]
        vm   == IF kw.given THEN kw.vm ELSE PyNone
        path == PathJoin(args[1], IpfName)
    IN  IpfLoop(OpenW(fsv, path), path, p, vm, 0)

(***************************************************************************)
(* Stand-ins for other functions a caller may decorate: they return None,  *)
(* a two-dimensional array with one row per element of the second          *)
(* argument, or a one-dimensional array.  Each depends on the value and on *)
(* the shape of every argument it is given.                                *)
(***************************************************************************)
RECURSIVE Sum(_)
Sum(s) == IF s = <<>> THEN 0 ELSE Head(s) + Sum(Tail(s))

\* a number that differs when the value or the number of dimensions differ
Code(x) ==
    CASE x.k = "none"   -> 1
      [] x.k = "num"    -> 10 + 7 * x.v[1]
      [] x.k = "arr"    -> 200 + 7 * Sum(x.v) + Len(x.v)
      [] x.k = "mat"    -> 3000 + 7 * Sum([i \in 1 .. Len(x.rows) |-> Sum(x.rows[i])])
      [] x.k = "nested" -> 40000

ArgsCode(args, kw) ==
    Sum([i \in 1 .. Len(args) - 1 |-> i * Code(args[i + 1])])
    + (IF kw.given THEN 11 * Code(kw.vm) ELSE 0)

\* the elements along the first axis of the second argument
FirstAxis(x) ==
    CASE x.k = "arr" -> x.v
      [] x.k = "mat" -> [i \in 1 .. Len(x.rows) |-> Sum(x.rows[i])]
      [] OTHER       -> <<>>

GenericFunc(fn, fsv, args, kw) ==
    LET axis == FirstAxis(args[2])
        code == ArgsCode(args, kw)
    IN  CASE fn = "returns_none"  -> Returns(fsv, PyNone)
          [] fn = "returns_rows"  ->
                 Returns(fsv, Mat([i \in 1 .. Len(axis) |-> <<axis[i], code>>]))
          [] fn = "returns_array" ->
                 Returns(fsv, Arr([i \in 1 .. Len(axis) |-> axis[i] + code]))

\* func(*args, **kwargs) of line 23
Func(fn, fsv, args, kw) ==
    IF fn = "write_interpolate_ipf" THEN write_interpolate_ipf(fsv, args, kw)
    ELSE GenericFunc(fn, fsv, args, kw)

(***************************************************************************)
(* paramArrayInputDecorator                                                *)
(***************************************************************************)
\* numpy.array(x).shape == ()
IsZeroDim(x) == x.k \in {"num", "none"}

\* numpy.array([x])
Wrap1(x) ==
    CASE x.k = "num" -> Arr(x.v)
      [] x.k = "arr" -> Mat(<<x.v>>)
      [] OTHER       -> Nested

\* lines 15-18 leaving the last positional argument as it was
WrapArgsButLast(args) ==
    [i \in 1 .. Len(args) |->
        IF i = 1 \/ i = Len(args) THEN args[i] ELSE Wrap1(args[i])]

\* newargs of lines 15-18
WrapArgs(args) ==
    [i \in 1 .. Len(args) |-> IF i = 1 THEN args[i] ELSE Wrap1(args[i])]

\* kwargs after lines 19-20
WrapKwargs(kw) ==
    IF kw.given /\ kw.vm # PyNone THEN [kw EXCEPT !.vm = Wrap1(kw.vm)] ELSE kw

\* result[0,:]
Index0(r) ==
    IF r.ret.k = "mat" /\ Len(r.ret.rows) > 0 THEN Returns(r.fs, Arr(r.ret.rows[1]))
    ELSE Raises(r.fs, "IndexError")

\* lines 24-28 without the test for None
FinishNoNoneTest(scalarOut, r) ==
    IF r.exc # "none" THEN r
    ELSE IF scalarOut THEN Index0(r)
    ELSE r

\* lines 24-28 taking row 0 in array mode too
FinishAlwaysRow0(scalarOut, r) ==
    IF r.exc # "none" THEN r
    ELSE IF r.ret = PyNone THEN r
    ELSE Index0(r)

\* lines 24-28: what the wrapper makes of func's result
Finish(scalarOut, r) ==
    IF r.exc # "none" THEN r
    ELSE IF r.ret = PyNone THEN r
    ELSE IF scalarOut THEN Index0(r)
    ELSE r

\* line 13 taken for true whatever the second argument
ScalarOutAlways(args) == TRUE

\* scalarOut of lines 13-22
ScalarOut(args) == IsZeroDim(args[2])

\* scalar_wrapper(*args, **kwargs) around the function named fn; recvArgs and
\* recvKw are what the function was called with
scalar_wrapper(fn, fsv, args, kw) ==
    LET so    == ScalarOut(args)
        cargs == IF so THEN WrapArgs(args) ELSE args
        ckw   == IF so THEN WrapKwargs(kw) ELSE kw
        r     == Finish(so, Func(fn, fsv, cargs, ckw))
    IN  [fs |-> r.fs, exc |-> r.exc, ret |-> r.ret,
         recvArgs |-> cargs, recvKw |-> ckw]

(***************************************************************************)
(* run_ferre.  The environment decides whether 'ferre' can be started in   *)
(* the directory, its exit status and what it prints.                      *)
(***************************************************************************)
LaunchErrors == {"FileNotFoundError", "PermissionError"}

\* str() of the OSError raised when the program cannot be started
LaunchMessage(launch) ==
    IF launch = "FileNotFoundError"
    THEN <<"[","E","r","r","n","o"," ","2","]"," ","N","o"," ","s","u","c","h"," ",
           "f","i","l","e"," ","o","r"," ","d","i","r","e","c","t","o","r","y",":",
           " ","'","f","e","r","r","e","'">>
    ELSE <<"[","E","r","r","n","o"," ","1","3","]"," ","P","e","r","m","i","s","s",
           "i","o","n"," ","d","e","n","i","e","d",":"," ","'","f","e","r","r","e","'">>

\* subprocess.check_call(['ferre'], cwd=dir, stdout=, stderr=)
check_call(env) ==
    IF env.launch # "started" THEN [exc |-> env.launch, msg |-> LaunchMessage(env.launch)]
    ELSE IF env.status # 0 THEN [exc |-> "CalledProcessError", msg |-> <<>>]
    ELSE [exc |-> "none", msg |-> <<>>]

\* "Running FERRE instance in directory %s failed ..." % dir
FailMessage(dir) ==
    <<"R","u","n","n","i","n","g"," ","F","E","R","R","E"," ","i","n","s","t","a",
      "n","c","e"," ","i","n"," ","d","i","r","e","c","t","o","r","y"," ">>
    \o dir \o <<" ","f","a","i","l","e","d"," ",".",".",".">>

\* lines 52-55 with a handler that catches every error
HandleAny(dir, c) ==
    IF c.exc # "none"
    THEN [exc |-> "Exception", msg |-> FailMessage(dir), ret |-> PyNone]
    ELSE [exc |-> "none", msg |-> <<>>, ret |-> PyNone]

\* lines 52-56: only CalledProcessError is caught and replaced
Handle(dir, c) ==
    IF c.exc = "CalledProcessError"
    THEN [exc |-> "Exception", msg |-> FailMessage(dir), ret |-> PyNone]
    ELSE IF c.exc # "none"
    THEN [exc |-> c.exc, msg |-> c.msg, ret |-> PyNone]
    ELSE [exc |-> "none", msg |-> <<>>, ret |-> PyNone]

\* run_ferre(dir, verbose): how the call ends, and what of the program's
\* output reaches the caller's terminal (inherited streams when verbose,
\* pipes nobody reads otherwise)
run_ferre(dir, verbose, env) ==
    LET r == Handle(dir, check_call(env))
    IN  [exc |-> r.exc, msg |-> r.msg, ret |-> r.ret,
         shown |-> IF verbose /\ env.launch = "started" THEN env.output ELSE <<>>]

(***************************************************************************)
(* Arguments of the calls the model makes.                                 *)
(***************************************************************************)
FileNames ==
    { [pfile |-> <<"i","n",".","i","p","f">>, offile |-> <<"o","u","t",".","d","a","t">>],
      [pfile |-> <<"p">>, offile |-> <<"o","2">>] }

SynthFiles == {NoneText, <<"g","r","i","d",".","h","d","r">>}

NdimVals == (0 .. MaxNdim) \cup {DefaultNdim, 11}

NmlArg(dir, names, ndim, nov, synthfile, inter, f_format, f_access) ==
    [dir |-> dir, pfile |-> names.pfile, offile |-> names.offile, ndim |-> ndim,
     nov |-> nov, synthfile |-> synthfile, inter |-> inter,
     f_format |-> f_format, f_access |-> f_access]

\* every option varied, in one working directory
NmlArgs ==
    { NmlArg(<<"w","1">>, n, ndim, nov, s, i, ff, fa) :
        n \in FileNames, ndim \in NdimVals, nov \in {DefaultNov, 2},
        s \in SynthFiles, i \in {DefaultInter, 1},
        ff \in {DefaultFFormat, 0}, fa \in {DefaultFAccess, 0} }

(***************************************************************************)
(* Parameter values: the i-th value of each parameter, in units of 1/10000 *)
(* (teff 4750.0 K, 5123.46 K, ...; metals -0.5, -0.2489, ...).             *)
(***************************************************************************)
Others == {"logg", "metals", "am", "nm", "cm", "vm"}

ParamNames == {"teff"} \cup Others

VmValues == <<10000, 20000, 5000, 14000, 100000>>

Val(q, i) ==
    CASE q = "teff"   -> 47500000 + 3734600 * (i - 1)
      [] q = "logg"   -> 25000 + 1234 * (i - 1)
      [] q = "metals" -> -5000 + 2511 * (i - 1)
      [] q = "am"     -> 1000 + 777 * (i - 1)
      [] q = "nm"     -> -3 + 12 * (i - 1)
      [] q = "cm"     -> 1234 * (i - 1)
      [] q = "vm"     -> VmValues[((i - 1) % 5) + 1]

\* the first k values of parameter q
ValSeq(q, k) == Arr([i \in 1 .. k |-> Val(q, i)])

\* the lengths of the sequences of a call: all len(teff), but for one or two
\* parameters; -1 stands for vm left out
BaseLens(n, hasVm) ==
    [q \in ParamNames |-> IF q = "vm" /\ ~hasVm THEN -1 ELSE n]

WithLen(l, q, k) == IF l[q] = -1 THEN l ELSE [l EXCEPT ![q] = k]

Deviating == {<<q, q>> : q \in Others} \cup {<<"logg", "cm">>, <<"nm", "vm">>}

LenVectors ==
    { WithLen(WithLen(BaseLens(n, h), d[1], k1), d[2], k2) :
        n \in 0 .. MaxLen, h \in BOOLEAN, d \in Deviating,
        k1 \in 0 .. MaxLen + 1, k2 \in 0 .. MaxLen + 1 }

SeqCall(dir, l) ==
    [args |-> <<dir, ValSeq("teff", l["teff"]), ValSeq("logg", l["logg"]),
                ValSeq("metals", l["metals"]), ValSeq("am", l["am"]),
                ValSeq("nm", l["nm"]), ValSeq("cm", l["cm"])>>,
     kw   |-> IF l["vm"] = -1 THEN NoKwargs ELSE VmKwarg(ValSeq("vm", l["vm"]))]

\* six scalars, with vm left out, given as None or given as a scalar
ScalarCall(dir, i, vmkind) ==
    [args |-> <<dir, Num(Val("teff", i)), Num(Val("logg", i)), Num(Val("metals", i)),
                Num(Val("am", i)), Num(Val("nm", i)), Num(Val("cm", i))>>,
     kw   |-> CASE vmkind = "absent" -> NoKwargs
                [] vmkind = "none"   -> VmKwarg(PyNone)
                [] vmkind = "scalar" -> VmKwarg(Num(Val("vm", i)))]

VmKinds == {"absent", "none", "scalar"}

IpfCalls ==
    {SeqCall(<<"w","1">>, l) : l \in LenVectors}
    \cup {ScalarCall(<<"w","1">>, i, vk) : i \in 1 .. MaxLen + 1, vk \in VmKinds}

NoCall == [op |-> "none"]

\* what a file held before a call: whether it held text, and how much
HadText(f) == f.exists /\ f.data # <<>>

(***************************************************************************)
(* The configuration writer alone.                                         *)
(***************************************************************************)
CallWriteInputNml(argset, hist) ==
    \E a \in argset :
        LET r    == write_input_nml(fs, a)
            path == PathJoin(a.dir, NmlName)
        IN  /\ fs' = r.fs
            /\ last' = [op |-> "write_input_nml", a |-> a,
                        hadText |-> HadText(fs[path]),
                        beforeLen |-> IF hist THEN Len(fs[path].data) ELSE 0,
                        exc |-> r.exc, ret |-> r.ret]

InitFiles ==
    /\ fs = EmptyFS
    /\ last = NoCall

NextNml == CallWriteInputNml(NmlArgs, FALSE)

SpecNml == InitFiles /\ [][NextNml]_vars

(***************************************************************************)
(* What write_input_nml leaves in input.nml.                               *)
(***************************************************************************)
NmlCalled == last.op = "write_input_nml"

NmlLines == SplitLines(fs[PathJoin(last.a.dir, NmlName)].data)

DefaultOptions(a) ==
    /\ a.ndim = DefaultNdim
    /\ a.nov = DefaultNov
    /\ a.synthfile = NoneText
    /\ a.inter = DefaultInter
    /\ a.f_format = DefaultFFormat
    /\ a.f_access = DefaultFAccess

\* C4 as stated: a configuration file written with the default option
\* values holds exactly 9 lines.
C4_NineLines == (NmlCalled /\ DefaultOptions(last.a)) => Len(NmlLines) = 9

\* C4 amended: a configuration file written with the default option values
\* holds exactly 11 lines, the open marker, nine directives and the close
\* marker.
C4_ElevenLines ==
    (NmlCalled /\ DefaultOptions(last.a)) =>
        /\ Len(NmlLines) = 11
        /\ Str(NmlLines[1]) = "&LISTA"
        /\ Str(NmlLines[11]) = "/"

C4_Witness ==
    /\ NmlCalled
    /\ DefaultOptions(last.a)
    /\ fs[PathJoin(last.a.dir, NmlName)].exists

C6_IndvList ==
    NmlCalled =>
        LET L     == NmlLines
            w     == Split(L[4], " ")
            nums  == SubSeq(w, 3, Len(w))
            ndimw == Split(L[2], " ")
        IN  /\ w[1] = <<"I","N","D","V">>
            /\ w[2] = <<"=">>
            /\ \A i \in 1 .. Len(nums) : IsNat(nums[i]) /\ ParseNat(nums[i]) = i
            /\ Len(nums) = last.a.ndim
            /\ IsNat(ndimw[3]) /\ Len(nums) = ParseNat(ndimw[3])
            /\ last.a.ndim = 6 => Str(L[4]) = "INDV = 1 2 3 4 5 6"

C6_Witness ==
    /\ NmlCalled
    /\ last.a.ndim = 6
    /\ last.a.nov = 0
    /\ Str(NmlLines[4]) = "INDV = 1 2 3 4 5 6"

(***************************************************************************)
(* The record writer alone, called through its decorator.                  *)
(***************************************************************************)
CallWriteInterpolateIpf(callset, hist) ==
    \E c \in callset :
        LET r    == scalar_wrapper("write_interpolate_ipf", fs, c.args, c.kw)
            path == PathJoin(c.args[1], IpfName)
        IN  /\ fs' = r.fs
            /\ last' = [op |-> "write_interpolate_ipf", args |-> c.args, kw |-> c.kw,
                        hadText |-> HadText(fs[path]),
                        beforeLen |-> IF hist THEN Len(fs[path].data) ELSE 0,
                        exc |-> r.exc, ret |-> r.ret]

\* a call of another decorated function
CallWrapped(fns, callset) ==
    \E fn \in fns, c \in callset :
        LET r == scalar_wrapper(fn, fs, c.args, c.kw)
        IN  /\ fs' = r.fs
            /\ last' = [op |-> "wrapped", fn |-> fn, args |-> c.args, kw |-> c.kw,
                        exc |-> r.exc, ret |-> r.ret,
                        recvArgs |-> r.recvArgs, recvKw |-> r.recvKw]

FewCalls ==
    {SeqCall(<<"w","1">>, BaseLens(n, h)) : n \in {0, MaxLen}, h \in BOOLEAN}
    \cup {ScalarCall(<<"w","1">>, 1, vk) : vk \in VmKinds}

NextIpf ==
    \/ CallWriteInterpolateIpf(IpfCalls, FALSE)
    \/ CallWrapped({"returns_none"}, FewCalls)

SpecIpf == InitFiles /\ [][NextIpf]_vars

(***************************************************************************)
(* What write_interpolate_ipf leaves in input.ipf.                         *)
(***************************************************************************)
IpfCalled == last.op = "write_interpolate_ipf"

IpfFile == fs[PathJoin(last.args[1], IpfName)]

IpfLines == SplitLines(IpfFile.data)

\* the values the last call gave for each parameter, a scalar counting as one
Given(q) ==
    CASE q = "teff"   -> last.args[2].v
      [] q = "logg"   -> last.args[3].v
      [] q = "metals" -> last.args[4].v
      [] q = "am"     -> last.args[5].v
      [] q = "nm"     -> last.args[6].v
      [] q = "cm"     -> last.args[7].v
      [] q = "vm"     -> last.kw.vm.v

VmGiven == last.kw.given /\ last.kw.vm # PyNone

GivenOthers == IF VmGiven THEN Others ELSE Others \ {"vm"}

AllScalars ==
    /\ \A i \in 2 .. 7 : last.args[i].k = "num"
    /\ VmGiven => last.kw.vm.k = "num"

AllSequences ==
    /\ \A i \in 2 .. 7 : last.args[i].k = "arr"
    /\ VmGiven => last.kw.vm.k = "arr"

EqualLength == \A q \in GivenOthers : Len(Given(q)) = Len(Given("teff"))

\* the shortest of the sequences other than teff
ShortestOther ==
    CHOOSE k \in 0 .. MaxLen + 2 :
        /\ \E q \in GivenOthers : Len(Given(q)) = k
        /\ \A q \in GivenOthers : Len(Given(q)) >= k

\* the call's sequences cut to their first k elements, as one-dimensional
\* arrays, and what the undecorated writer puts in an empty directory for them
FirstK(k) ==
    [args |-> [i \in 1 .. 7 |-> IF i = 1 THEN last.args[1]
                                ELSE Arr(SubSeq(last.args[i].v, 1, k))],
     kw   |-> IF VmGiven THEN VmKwarg(Arr(SubSeq(last.kw.vm.v, 1, k))) ELSE NoKwargs]

TextOfFirstK(k) ==
    write_interpolate_ipf(EmptyFS, FirstK(k).args, FirstK(k).kw)
        .fs[PathJoin(last.args[1], IpfName)].data

\* C3: a wrapped function's None comes back as None in scalar mode and in
\* array mode, with no error; write_interpolate_ipf returns None for six
\* scalars and for six sequences of equal length, and the scalar call writes
\* the one line the call with one-element sequences writes.
C3_NonePropagates ==
    /\ (last.op = "wrapped" /\ last.fn = "returns_none") =>
           last.exc = "none" /\ last.ret = PyNone
    /\ (IpfCalled /\ (AllScalars \/ (AllSequences /\ EqualLength))) =>
           last.exc = "none" /\ last.ret = PyNone
    /\ (IpfCalled /\ AllScalars) =>
           /\ Len(IpfLines) = 1
           /\ IpfFile.data = TextOfFirstK(1)

C3_Witness ==
    /\ IpfCalled
    /\ AllScalars
    /\ VmGiven
    /\ last.ret = PyNone
    /\ Len(IpfLines) = 1

\* a field reads as a decimal number with d decimals: sign, digits, point,
\* d digits
IsFixed(field, d) ==
    LET body == IF field # <<>> /\ field[1] = "-" THEN Tail(field) ELSE field
        n    == Len(body)
    IN  /\ n >= d + 2
        /\ body[n - d] = "."
        /\ IsNat(SubSeq(body, 1, n - d - 1))
        /\ IsNat(SubSeq(body, n - d + 1, n))

\* the number a field reads as, counted in units of 10^-d
ParseFixed(field, d) ==
    LET neg  == field[1] = "-"
        body == IF neg THEN Tail(field) ELSE field
        n    == Len(body)
        mag  == ParseNat(SubSeq(body, 1, n - d - 1)) * Pow10(d)
                + ParseNat(SubSeq(body, n - d + 1, n))
    IN  IF neg THEN -mag ELSE mag

\* the field is x (in units of 1/10000) to d decimals
Shows(field, x, d) ==
    /\ IsFixed(field, d)
    /\ LET diff == ParseFixed(field, d) * Pow10(4 - d) - x
       IN  2 * (IF diff < 0 THEN -diff ELSE diff) <= Pow10(4 - d)
    /\ (field[1] = "-") = (x < 0)

\* C7: for sequences of equal length n the file holds n lines, line i being
\* dummy and then, separated by single spaces, cm nm am metals logg teff of
\* record i: 6 numeric fields, or 7 with the base-10 logarithm of vm[i]
\* put first when vm is given.
C7_RecordLines ==
    (IpfCalled /\ EqualLength) =>
        /\ Len(IpfLines) = Len(Given("teff"))
        /\ \A i \in 1 .. Len(IpfLines) :
               LET w == Split(IpfLines[i], " ")
                   o == IF VmGiven THEN 1 ELSE 0
               IN  /\ Len(w) = 7 + o
                   /\ Str(w[1]) = "dummy"
                   /\ VmGiven => Shows(w[2], Log10(Given("vm")[i]), 3)
                   /\ Shows(w[2 + o], Given("cm")[i], 3)
                   /\ Shows(w[3 + o], Given("nm")[i], 3)
                   /\ Shows(w[4 + o], Given("am")[i], 3)
                   /\ Shows(w[5 + o], Given("metals")[i], 3)
                   /\ Shows(w[6 + o], Given("logg")[i], 3)
                   /\ Shows(w[7 + o], Given("teff")[i], 1)

C7_Witness ==
    /\ IpfCalled
    /\ AllSequences
    /\ EqualLength
    /\ VmGiven
    /\ Len(Given("teff")) = 2
    /\ Str(IpfLines[2]) = "dummy 0.301 0.123 0.001 0.178 -0.249 2.623 5123.5"

\* C10: the lengths are not compared: the writer goes by len(teff).  With
\* every other sequence at least that long it writes len(teff) lines and
\* ignores the surplus; with the shortest other sequence of length
\* k < len(teff) it fails with an index error at record k, and input.ipf,
\* whatever it held, then holds exactly the lines of records 0 .. k-1.
C10_UnequalLengths ==
    (IpfCalled /\ AllSequences) =>
        LET n == Len(Given("teff"))
            k == ShortestOther
        IN  /\ k >= n =>
                   /\ last.exc = "none"
                   /\ Len(IpfLines) = n
                   /\ IpfFile.data = TextOfFirstK(n)
            /\ k < n =>
                   /\ last.exc = "IndexError"
                   /\ IpfFile.exists
                   /\ Len(IpfLines) = k
                   /\ IpfFile.data = TextOfFirstK(k)

C10_Witness ==
    /\ IpfCalled
    /\ AllSequences
    /\ last.exc = "IndexError"
    /\ last.hadText
    /\ ShortestOther = 1
    /\ Len(IpfLines) = 1
    /\ Len(Given("vm")) > Len(Given("teff"))

(***************************************************************************)
(* The decorator around other functions.                                   *)
(***************************************************************************)
GenericFns == {"returns_none", "returns_rows", "returns_array"}

\* a parameter given as a scalar or as a sequence of 1 or MaxLen values
Shapes(q) == {Num(Val(q, 1)), ValSeq(q, 1), ValSeq(q, MaxLen)}

GenericCalls ==
    { [args |-> <<(<<"w","1">>), a, b, c>>, kw |-> kw] :
        a \in Shapes("teff"), b \in Shapes("logg"), c \in Shapes("metals"),
        kw \in {NoKwargs, VmKwarg(PyNone)} \cup {VmKwarg(x) : x \in Shapes("vm")} }

NextDec == CallWrapped(GenericFns, GenericCalls)

SpecDec == InitFiles /\ [][NextDec]_vars

WrappedCalled == last.op = "wrapped"

\* the call's parameters are all scalars
ScalarParams ==
    /\ \A i \in 2 .. Len(last.args) : last.args[i].k = "num"
    /\ VmGiven => last.kw.vm.k = "num"

\* the function called directly with each parameter in a one-element sequence
DirectOneElement ==
    Func(last.fn, fs,
         [i \in 1 .. Len(last.args) |->
             IF i = 1 THEN last.args[1] ELSE Arr(<<last.args[i].v[1]>>)],
         IF VmGiven THEN VmKwarg(Arr(<<last.kw.vm.v[1]>>)) ELSE last.kw)

\* C1 as stated: in scalar mode the wrapper returns row 0 of what the
\* function returns for one-element sequences, whenever that is not None.
C1_Row0OfAnyResult ==
    (WrappedCalled /\ ScalarParams /\ DirectOneElement.ret # PyNone) =>
        /\ last.exc = "none"
        /\ last.ret = IF DirectOneElement.ret.k = "mat"
                      THEN Arr(DirectOneElement.ret.rows[1])
                      ELSE Num(DirectOneElement.ret.v[1])

\* C1 amended: in scalar mode the wrapper returns row 0 of what the function
\* returns for one-element sequences when that is an array of two dimensions;
\* when it is one-dimensional the wrapper raises an index error.
C1_Row0OfRows ==
    (WrappedCalled /\ ScalarParams) =>
        LET d == DirectOneElement
        IN  /\ last.recvArgs[1] = last.args[1]
            /\ \A i \in 2 .. Len(last.args) :
                   last.recvArgs[i] = Arr(<<last.args[i].v[1]>>)
            /\ VmGiven => last.recvKw = VmKwarg(Arr(<<last.kw.vm.v[1]>>))
            /\ ~VmGiven => last.recvKw = last.kw
            /\ d.ret.k = "mat" =>
                   last.exc = "none" /\ last.ret = Arr(d.ret.rows[1])
            /\ d.ret.k = "arr" => last.exc = "IndexError"

C1_Witness ==
    /\ WrappedCalled
    /\ ScalarParams
    /\ VmGiven
    /\ last.fn = "returns_rows"
    /\ last.exc = "none"
    /\ last.ret.k = "arr"
    /\ Len(last.ret.v) = 2

\* C2: in array mode the function receives the positional and named
\* arguments as they were given and the wrapper returns its result as it is.
C2_ArrayModePassThrough ==
    (WrappedCalled /\ last.args[2].k = "arr") =>
        /\ last.recvArgs = last.args
        /\ last.recvKw = last.kw
        /\ last.exc = Func(last.fn, fs, last.args, last.kw).exc
        /\ last.ret = Func(last.fn, fs, last.args, last.kw).ret

C2_Witness ==
    /\ WrappedCalled
    /\ last.args[2].k = "arr"
    /\ last.args[3].k = "num"
    /\ VmGiven
    /\ last.fn = "returns_rows"
    /\ last.ret.k = "mat"
    /\ Len(last.ret.rows) = 2

(***************************************************************************)
(* The whole module: both writers and the runner on two directories.       *)
(***************************************************************************)
NmlFew ==
    UNION { { NmlArg(d, [pfile |-> <<"i","n",".","i","p","f">>,
                         offile |-> <<"o","u","t",".","d","a","t">>],
                     DefaultNdim, DefaultNov, NoneText, DefaultInter,
                     DefaultFFormat, DefaultFAccess),
              NmlArg(d, [pfile |-> <<"p">>, offile |-> <<"o","2">>],
                     MaxNdim, 2, <<"g","r","i","d",".","h","d","r">>, 1, 0, 0),
              NmlArg(d, [pfile |-> <<"p">>, offile |-> <<"o","2">>],
                     0, DefaultNov, NoneText, DefaultInter,
                     DefaultFFormat, DefaultFAccess) } : d \in Dirs }

IpfFew ==
    UNION { { ScalarCall(d, 1, "scalar"),
              SeqCall(d, BaseLens(MaxLen, FALSE)),
              SeqCall(d, WithLen(BaseLens(MaxLen, TRUE), "cm", MaxLen - 1)) } :
            d \in Dirs }

Outputs == {<<>>, <<"b","a","d"," ","g","r","i","d">>}

Environments ==
    {[launch |-> "started", status |-> st, output |-> o] :
        st \in {0, 1, 2}, o \in Outputs}
    \cup {[launch |-> l, status |-> 0, output |-> <<>>] : l \in LaunchErrors}

CallRunFerre ==
    \E dir \in Dirs, verbose \in BOOLEAN, env \in Environments :
        LET r == run_ferre(dir, verbose, env)
        IN  /\ last' = [op |-> "run_ferre", dir |-> dir, verbose |-> verbose,
                        env |-> env, exc |-> r.exc, msg |-> r.msg, ret |-> r.ret,
                        shown |-> r.shown]
            /\ UNCHANGED fs

Next ==
    \/ CallWriteInputNml(NmlFew, TRUE)
    \/ CallWriteInterpolateIpf(IpfFew, TRUE)
    \/ CallRunFerre

Spec == InitFiles /\ [][Next]_vars

Contains(text, sub) ==
    \E i \in 1 .. Len(text) - Len(sub) + 1 : SubSeq(text, i, i + Len(sub) - 1) = sub

RunCalled == last.op = "run_ferre"

\* C8: run_ferre returns None on exit status 0; on another status it raises
\* the generic error, whose message holds the directory and nothing the
\* program printed; when the program cannot be started the launch error
\* itself comes out, not the generic error.
C8_RunOutcomes ==
    RunCalled =>
        /\ (last.env.launch = "started" /\ last.env.status = 0) =>
               last.exc = "none" /\ last.ret = PyNone
        /\ (last.env.launch = "started" /\ last.env.status # 0) =>
               /\ last.exc = "Exception"
               /\ Contains(last.msg, last.dir)
               /\ last.env.output # <<>> => ~Contains(last.msg, last.env.output)
        /\ last.env.launch # "started" =>
               /\ last.exc = last.env.launch
               /\ last.exc # "Exception"
               /\ last.msg = LaunchMessage(last.env.launch)

C8_Witness ==
    /\ RunCalled
    /\ last.env.launch = "started"
    /\ last.env.status = 1
    /\ last.env.output # <<>>
    /\ ~last.verbose
    /\ last.exc = "Exception"
    /\ Str(last.msg) = "Running FERRE instance in directory run2 failed ..."

\* C9: a successful write_input_nml leaves in <dir>/input.nml what the same
\* call writes into an empty directory, whatever the file held, and changes
\* no other file; the same for write_interpolate_ipf and <dir>/input.ipf.
C9_LastWriteWins ==
    [][ /\ last'.op = "write_input_nml" =>
               LET p == PathJoin(last'.a.dir, NmlName)
               IN  /\ fs'[p] = write_input_nml(EmptyFS, last'.a).fs[p]
                   /\ \A q \in Paths \ {p} : fs'[q] = fs[q]
        /\ (last'.op = "write_interpolate_ipf" /\ last'.exc = "none") =>
               LET p == PathJoin(last'.args[1], IpfName)
               IN  /\ fs'[p] = scalar_wrapper("write_interpolate_ipf", EmptyFS,
                                              last'.args, last'.kw).fs[p]
                   /\ \A q \in Paths \ {p} : fs'[q] = fs[q] ]_vars

C9_Witness ==
    /\ NmlCalled
    /\ last.beforeLen > Len(fs[PathJoin(last.a.dir, NmlName)].data)
    /\ HadText(fs[PathJoin(last.a.dir, IpfName)])
    /\ \E d \in Dirs : d # last.a.dir /\ HadText(fs[PathJoin(d, NmlName)])

====
